---- MODULE Spec2Model ----
(***************************************************************************)
(* Model of cytominer_eval/utils/operation_utils.py:                       *)
(*   assign_replicates(similarity_melted_df, replicate_groups)             *)
(*   compare_distributions(target_distrib, control_distrib, method,        *)
(*                         replicate_summary_method)                       *)
(*                                                                         *)
(* A data frame is a record [index, cols]: index is the sequence of row    *)
(* labels, cols the sequence of columns, each [name, vals] with one value  *)
(* per row position.  Column names may repeat, as in pandas.  A column     *)
(* name is a sequence of string pieces, so that the code's string          *)
(* formatting ("{col}{suf}", "{x}_replicate", the merge suffixes) is       *)
(* concatenation and two names are equal exactly when the strings are.     *)
(***************************************************************************)
EXTENDS Integers, Sequences, FiniteSets, TLC

VARIABLES
    pc,          \* "ready" before the call, "done" after it
    op,          \* which operation this behaviour calls
    table,       \* the caller's similarity_melted_df object
    groups,      \* replicate_groups
    target,      \* target_distrib
    control,     \* control_distrib
    method,      \* method
    summary,     \* replicate_summary_method
    ret          \* what the call gave back to the caller

vars == <<pc, op, table, groups, target, control, method, summary, ret>>

(***************************************************************************)
(* Bounds of the explored inputs.                                          *)
(***************************************************************************)
MaxRows == 2
MaxGroups == 2
MaxTarget == 3
MaxControl == 2
MaxValue == 2

Range(s) == {s[i] : i \in DOMAIN s}

RECURSIVE SumSeq(_)
SumSeq(s) == IF s = <<>> THEN 0 ELSE Head(s) + SumSeq(Tail(s))

(***************************************************************************)
(* Data frames.                                                            *)
(***************************************************************************)
EmptyFrame == [index |-> <<>>, cols |-> <<>>]

NRows(df) == Len(df.index)

HasColumn(df, nm) == \E i \in DOMAIN df.cols : df.cols[i].name = nm

\* df.loc[:, names] reads, for each requested name in turn, every column
\* carrying that name.
RECURSIVE ColumnsNamed(_, _)
ColumnsNamed(cols, names) ==
    IF names = <<>> THEN <<>>
    ELSE LET nm == Head(names)
             Match(c) == c.name = nm
         IN  SelectSeq(cols, Match) \o ColumnsNamed(cols, Tail(names))

\* df.loc[:, nm] = vals / df.assign(nm=vals): overwrite the column(s) named
\* nm, or append a new column.
SetColumn(df, nm, vals) ==
    IF HasColumn(df, nm)
    THEN [df EXCEPT !.cols = [i \in DOMAIN df.cols |->
                IF df.cols[i].name = nm THEN [name |-> nm, vals |-> vals]
                ELSE df.cols[i]]]
    ELSE [df EXCEPT !.cols = Append(df.cols, [name |-> nm, vals |-> vals])]

(***************************************************************************)
(* set_pair_ids(): the two sides of a pair and their column suffixes.      *)
(***************************************************************************)
set_pair_ids ==
    << [id |-> "pair_a", suffix |-> "_pair_a"],
       [id |-> "pair_b", suffix |-> "_pair_b"] >>

\* line 40: "{x}_replicate".format(x=x)
replicate_col_name(x) == x \o <<"_replicate">>

\* line 40: the dict {x: "{x}_replicate"}: one key per distinct group, in
\* order of first occurrence; this is its .values().
RECURSIVE replicate_col_names(_)
replicate_col_names(gs) ==
    IF gs = <<>> THEN <<>>
    ELSE LET init == replicate_col_names(SubSeq(gs, 1, Len(gs) - 1))
             last == gs[Len(gs)]
         IN  IF \E i \in 1..(Len(gs) - 1) : gs[i] = last THEN init
             ELSE Append(init, replicate_col_name(last))

\* lines 44-47: "{col}{suf}" for each pair id, in the mapping's order
replicate_cols_with_suffix(col) ==
    [i \in DOMAIN set_pair_ids |-> col \o <<set_pair_ids[i].suffix>>]

\* lines 49-51: the assertion on the melted frame's columns
ColumnsPresent(df, col) ==
    \A i \in DOMAIN replicate_cols_with_suffix(col) :
        HasColumn(df, replicate_cols_with_suffix(col)[i])

\* Variant of LocColumns: the selection shares its data with the frame it
\* was taken from.
LocColumnsView(df, names) ==
    [df   |-> [index |-> df.index, cols |-> ColumnsNamed(df.cols, names)],
     view |-> TRUE]

\* line 55: similarity_melted_df.loc[:, replicate_cols_with_suffix].  A
\* selection by a list of labels is a new frame with its own data
\* (view = FALSE): later writes to it do not reach the frame it came from.
LocColumns(df, names) ==
    [df   |-> [index |-> df.index, cols |-> ColumnsNamed(df.cols, names)],
     view |-> FALSE]

\* Variant of ValuesEqual: an ordering comparison in place of equality.
ValuesLessEq(x, y) == x <= y

\* line 59: np.where(compare_df.iloc[:, 0] == compare_df.iloc[:, 1])[0]:
\* the 0-based row POSITIONS at which the first two columns are equal.
ValuesEqual(x, y) == x = y

WherePositions(df) ==
    {p \in 0..(NRows(df) - 1) :
        ValuesEqual(df.cols[1].vals[p + 1], df.cols[2].vals[p + 1])}

\* lines 58-61: compare_df.loc[keys, nm] = True.  .loc takes the keys as row
\* LABELS: a key that is no label of the index raises KeyError; otherwise
\* every row whose label is among the keys is set.
LocKeysPresent(df, keys) == keys \subseteq Range(df.index)

LocSetTrue(df, keys, nm) ==
    LET old == (CHOOSE i \in DOMAIN df.cols : df.cols[i].name = nm)
    IN  SetColumn(df, nm,
            [r \in 1..NRows(df) |->
                IF df.index[r] \in keys THEN TRUE ELSE df.cols[old].vals[r]])

\* line 56: compare_df.loc[:, name] = False adds a column from a scalar;
\* pandas refuses that on a frame with no rows (ValueError: cannot set a
\* frame with no defined index and a scalar).
ScalarColumnAllowed(df) == NRows(df) > 0

\* lines 44-62: one pass of the loop body over the frame the caller passed.
\* caller is that frame as the pass leaves it.
CompareStep(df, replicate_col) ==
    IF ~ColumnsPresent(df, replicate_col)
    THEN [outcome |-> "AssertionError", caller |-> df, compare_df |-> EmptyFrame]
    ELSE IF ~ScalarColumnAllowed(df)
    THEN [outcome |-> "ValueError", caller |-> df, compare_df |-> EmptyFrame]
    ELSE
    LET nm      == replicate_col_name(replicate_col)
        sel     == LocColumns(df, replicate_cols_with_suffix(replicate_col))
        falses  == [r \in 1..NRows(df) |-> FALSE]
        c1      == SetColumn(sel.df, nm, falses)
        caller1 == IF sel.view THEN SetColumn(df, nm, falses) ELSE df
        keys    == WherePositions(c1)
    IN  IF ~LocKeysPresent(c1, keys)
        THEN [outcome |-> "KeyError", caller |-> caller1, compare_df |-> EmptyFrame]
        ELSE [outcome    |-> "ok",
              caller     |-> IF sel.view THEN LocSetTrue(caller1, keys, nm)
                             ELSE caller1,
              compare_df |-> LocSetTrue(c1, keys, nm)]

\* lines 42-62: the loop; it stops at the first pass that raises.
RECURSIVE CompareLoop(_, _, _)
CompareLoop(df, gs, dfs) ==
    IF gs = <<>> THEN [outcome |-> "ok", caller |-> df, compare_dfs |-> dfs]
    ELSE LET step == CompareStep(df, Head(gs))
         IN  IF step.outcome # "ok"
             THEN [outcome |-> step.outcome, caller |-> step.caller,
                   compare_dfs |-> dfs]
             ELSE CompareLoop(step.caller, Tail(gs),
                              Append(dfs, step.compare_df))

\* line 64: pd.concat(compare_dfs, axis="columns"): the frames all carry the
\* index of the melted frame, so their columns are laid side by side.
RECURSIVE ConcatColumns(_)
ConcatColumns(dfs) ==
    IF dfs = <<>> THEN <<>>
    ELSE Head(dfs).cols \o ConcatColumns(Tail(dfs))

\* line 64: .reset_index(drop=True): the labels become 0..n-1
ConcatReset(dfs) ==
    [index |-> [r \in 1..NRows(dfs[1]) |-> r - 1], cols |-> ConcatColumns(dfs)]

\* Variant of BoolMin: the maximum in place of the minimum.
BoolMax(bs) == IF TRUE \in bs THEN TRUE ELSE FALSE

\* line 66: .min(axis="columns") over boolean columns: False < True
BoolMin(bs) == IF FALSE \in bs THEN FALSE ELSE TRUE

\* lines 65-69: assign group_replicate, keep the derived columns only
GroupReplicate(compare_df, gs) ==
    LET names    == replicate_col_names(gs)
        picked   == ColumnsNamed(compare_df.cols, names)
        rowmin   == [r \in 1..NRows(compare_df) |->
                        BoolMin({picked[i].vals[r] : i \in DOMAIN picked})]
        assigned == SetColumn(compare_df, <<"group", "_replicate">>, rowmin)
    IN  [index |-> assigned.index,
         cols  |-> ColumnsNamed(assigned.cols,
                                Append(names, <<"group", "_replicate">>))]

\* lines 71-73: left.merge(right, left_index=True, right_index=True): an
\* inner join on the row labels, in the order of the left frame; a column
\* name held by both sides gets "_x" on the left and "_y" on the right.
RECURSIVE MatchedRows(_, _, _)
MatchedRows(left, right, r) ==
    IF r > NRows(left) THEN <<>>
    ELSE (IF left.index[r] \in Range(right.index) THEN <<r>> ELSE <<>>)
         \o MatchedRows(left, right, r + 1)

MergeOnIndex(left, right) ==
    LET rows    == MatchedRows(left, right, 1)
        overlap == {left.cols[i].name : i \in DOMAIN left.cols}
                   \cap {right.cols[i].name : i \in DOMAIN right.cols}
        Pos(lbl) == CHOOSE q \in DOMAIN right.index : right.index[q] = lbl
        lcols   == [i \in DOMAIN left.cols |->
                      [name |-> IF left.cols[i].name \in overlap
                                THEN left.cols[i].name \o <<"_x">>
                                ELSE left.cols[i].name,
                       vals |-> [k \in DOMAIN rows |-> left.cols[i].vals[rows[k]]]]]
        rcols   == [i \in DOMAIN right.cols |->
                      [name |-> IF right.cols[i].name \in overlap
                                THEN right.cols[i].name \o <<"_y">>
                                ELSE right.cols[i].name,
                       vals |-> [k \in DOMAIN rows |->
                                   right.cols[i].vals[Pos(left.index[rows[k]])]]]]
    IN  [index |-> [k \in DOMAIN rows |-> left.index[rows[k]]],
         cols  |-> lcols \o rcols]

\* lines 14-74.  value is the returned frame (EmptyFrame when the call
\* raised), caller the frame object the caller passed, as the call left it.
assign_replicates(df, gs) ==
    LET loop == CompareLoop(df, gs, <<>>)
    IN  IF loop.outcome # "ok"
        THEN [outcome |-> loop.outcome, value |-> EmptyFrame, caller |-> loop.caller]
        ELSE IF loop.compare_dfs = <<>>   \* pd.concat of an empty list
        THEN [outcome |-> "ValueError", value |-> EmptyFrame, caller |-> loop.caller]
        ELSE [outcome |-> "ok",
              value   |-> MergeOnIndex(loop.caller,
                              GroupReplicate(ConcatReset(loop.compare_dfs), gs)),
              caller  |-> loop.caller]

(***************************************************************************)
(* compare_distributions.  A score is the exact real number                *)
(*     num / (den * sqrt(rad))        (den > 0, rad > 0)                   *)
(* so that the standard deviation of the control sample needs no rounding. *)
(***************************************************************************)
\* availability_utils: the supported names
check_compare_distribution_method(m) == m \in {"zscore"}

check_replicate_summary_method(m) == m \in {"mean", "median"}

\* lines 113-114: fit and transform both validate their argument and
\* reject a sample with no element (ValueError).
SampleAccepted(sample) == Len(sample) > 0

\* line 113: scaler.fit(control_distrib): the sample's mean sum/n and its
\* population variance v/(n*n); an empty sample is rejected with ValueError.
StandardScalerFit(sample) ==
    LET n == Len(sample)
        s == SumSeq(sample)
        q == SumSeq([i \in DOMAIN sample |-> sample[i] * sample[i]])
    IN  [ok |-> SampleAccepted(sample), n |-> n, sum |-> s, v |-> n * q - s * s]

\* Variant of StandardScalerTransform: a zero standard deviation is used
\* as the scale.
StandardScalerTransformNoGuard(scaler, sample) ==
    [i \in DOMAIN sample |->
        [num |-> scaler.n * sample[i] - scaler.sum, den |-> 1, rad |-> scaler.v]]

\* line 114: scaler.transform(target_distrib): (x - mean) / scale for each
\* element, where scale is the standard deviation, or 1 when that is 0.
\* Dispatch applies it to accepted samples only.
StandardScalerTransform(scaler, sample) ==
    [i \in DOMAIN sample |->
        IF scaler.v = 0
        THEN [num |-> scaler.n * sample[i] - scaler.sum, den |-> scaler.n, rad |-> 1]
        ELSE [num |-> scaler.n * sample[i] - scaler.sum, den |-> 1, rad |-> scaler.v]]

\* line 117: np.mean(scores)
NpMean(scores) ==
    [num |-> SumSeq([i \in DOMAIN scores |-> scores[i].num]),
     den |-> scores[1].den * Len(scores),
     rad |-> scores[1].rad]

RECURSIVE InsertSorted(_, _)
InsertSorted(s, x) ==
    IF s = <<>> THEN <<x>>
    ELSE IF x <= Head(s) THEN <<x>> \o s
    ELSE <<Head(s)>> \o InsertSorted(Tail(s), x)

RECURSIVE NpSort(_)
NpSort(s) == IF s = <<>> THEN <<>> ELSE InsertSorted(NpSort(Tail(s)), Head(s))

\* Variant of NpMedian: the mean is taken in place of the median.
NpMedianAsMean(scores) ==
    [num |-> SumSeq([i \in DOMAIN scores |-> scores[i].num]),
     den |-> scores[1].den * Len(scores),
     rad |-> scores[1].rad]

\* line 119: np.median(scores): the middle of the sorted scores, or the mean
\* of the two middle ones
NpMedian(scores) ==
    LET sorted == NpSort([i \in DOMAIN scores |-> scores[i].num])
        m      == Len(scores)
    IN  IF m % 2 = 1
        THEN [num |-> sorted[(m + 1) \div 2], den |-> scores[1].den,
              rad |-> scores[1].rad]
        ELSE [num |-> sorted[m \div 2] + sorted[m \div 2 + 1],
              den |-> 2 * scores[1].den, rad |-> scores[1].rad]

NoScalar == [num |-> 0, den |-> 1, rad |-> 1]

Raised(err, calls) ==
    [outcome |-> err, kind |-> "none", scalar |-> NoScalar, scores |-> <<>>,
     calls |-> calls]

\* Variant of Dispatch: the "median" branch is missing.
DispatchNoMedian(tgt, ctl, m, sm) ==
    LET scaler == StandardScalerFit(ctl)
        scores == StandardScalerTransform(scaler, tgt)
        calls  == <<"check_method", "check_summary", "fit", "transform">>
    IN  IF m # "zscore"
        THEN Raised("UnboundLocalError", <<"check_method", "check_summary">>)
        ELSE IF ~scaler.ok
        THEN Raised("ValueError", <<"check_method", "check_summary", "fit">>)
        ELSE IF ~SampleAccepted(tgt)
        THEN Raised("ValueError", calls)
        ELSE IF sm = "mean"
        THEN [outcome |-> "ok", kind |-> "scalar", scalar |-> NpMean(scores),
              scores |-> scores, calls |-> calls]
        ELSE [outcome |-> "ok", kind |-> "array", scalar |-> NoScalar,
              scores |-> scores, calls |-> calls]

\* lines 111-121, once both names are accepted.  calls lists what has run.
Dispatch(tgt, ctl, m, sm) ==
    IF m # "zscore"
    THEN Raised("UnboundLocalError", <<"check_method", "check_summary">>)
    ELSE
    LET scaler == StandardScalerFit(ctl)
    IN  IF ~scaler.ok
        THEN Raised("ValueError", <<"check_method", "check_summary", "fit">>)
        ELSE
        LET scores == StandardScalerTransform(scaler, tgt)
            calls  == <<"check_method", "check_summary", "fit", "transform">>
        IN  IF ~SampleAccepted(tgt)   \* transform raises
            THEN Raised("ValueError", calls)
            ELSE IF sm = "mean"
            THEN [outcome |-> "ok", kind |-> "scalar", scalar |-> NpMean(scores),
                  scores |-> scores, calls |-> calls]
            ELSE IF sm = "median"
            THEN [outcome |-> "ok", kind |-> "scalar", scalar |-> NpMedian(scores),
                  scores |-> scores, calls |-> calls]
            ELSE [outcome |-> "ok", kind |-> "array", scalar |-> NoScalar,
                  scores |-> scores, calls |-> calls]

\* Variant of compare_distributions: replicate_summary_method is not checked.
compare_distributions_summary_unchecked(tgt, ctl, m, sm) ==
    IF ~check_compare_distribution_method(m)
    THEN Raised("UnsupportedMethodError", <<"check_method">>)
    ELSE Dispatch(tgt, ctl, m, sm)

\* lines 77-121
compare_distributions(tgt, ctl, m, sm) ==
    IF ~check_compare_distribution_method(m)
    THEN Raised("UnsupportedMethodError", <<"check_method">>)
    ELSE IF ~check_replicate_summary_method(sm)
    THEN Raised("UnsupportedMethodError", <<"check_method", "check_summary">>)
    ELSE Dispatch(tgt, ctl, m, sm)

(***************************************************************************)
(* The explored inputs.                                                    *)
(***************************************************************************)
Fields == {<<"a">>, <<"b">>}

Schemas == {"plain", "b_side_missing", "has_a_replicate", "has_group_replicate"}

\* Row labels of an n-row frame: 0..n with one label left out (the default
\* index 0..n-1, or what a filter leaves), or 0..n-1 rotated by one.
Indexes(n) ==
    {[r \in 1..n |-> IF r - 1 < k THEN r - 1 ELSE r] : k \in 0..n}
    \cup (IF n = 0 THEN {} ELSE {[r \in 1..n |-> r % n]})

MeltedFrame(idx, a1, a2, b1, b2, schema) ==
    LET n == Len(idx)
    IN  [index |-> idx,
         cols  |->
            << [name |-> <<"a", "_pair_a">>, vals |-> a1],
               [name |-> <<"a", "_pair_b">>, vals |-> a2],
               [name |-> <<"b", "_pair_a">>, vals |-> b1] >>
            \o (IF schema = "b_side_missing" THEN <<>>
                ELSE << [name |-> <<"b", "_pair_b">>, vals |-> b2] >>)
            \o << [name |-> <<"similarity_metric">>,
                   vals |-> [r \in 1..n |-> 10 * r]] >>
            \o (IF schema = "has_a_replicate"
                THEN << [name |-> <<"a", "_replicate">>,
                         vals |-> [r \in 1..n |-> r % 2 = 0]] >>
                ELSE <<>>)
            \o (IF schema = "has_group_replicate"
                THEN << [name |-> <<"group", "_replicate">>,
                         vals |-> [r \in 1..n |-> r % 2 = 1]] >>
                ELSE <<>>)]

SeqsUpTo(S, lo, hi) == UNION {[1..k -> S] : k \in lo..hi}

Pending == [outcome |-> "pending", value |-> EmptyFrame]

InitAssign ==
    /\ pc = "ready"
    /\ op = "assign_replicates"
    /\ \E n \in 0..MaxRows :
         \E idx \in Indexes(n), schema \in Schemas :
           \E a1 \in [1..n -> 0..1], a2 \in [1..n -> 0..1],
              b1 \in [1..n -> 0..1] :
                table = MeltedFrame(idx, a1, a2, b1, [r \in 1..n |-> 0], schema)
    /\ groups \in SeqsUpTo(Fields, 1, MaxGroups)
    /\ target = <<>> /\ control = <<>>
    /\ method = "zscore" /\ summary = "mean"
    /\ ret = Pending

InitCompare ==
    /\ pc = "ready"
    /\ op = "compare_distributions"
    /\ table = EmptyFrame
    /\ groups = <<>>
    /\ target \in SeqsUpTo(0..MaxValue, 0, MaxTarget)
    /\ control \in SeqsUpTo(0..MaxValue, 0, MaxControl)
    /\ method \in {"zscore", "bogus"}
    /\ summary \in {"mean", "median", "bogus"}
    /\ ret = Pending

Init == InitAssign \/ InitCompare

\* The caller calls assign_replicates(table, groups).
AssignReplicates ==
    /\ pc = "ready" /\ op = "assign_replicates"
    /\ LET r == assign_replicates(table, groups)
       IN  /\ ret' = [outcome |-> r.outcome, value |-> r.value]
           /\ table' = r.caller
    /\ pc' = "done"
    /\ UNCHANGED <<op, groups, target, control, method, summary>>

\* The caller calls compare_distributions(target, control, method, summary).
CompareDistributions ==
    /\ pc = "ready" /\ op = "compare_distributions"
    /\ ret' = compare_distributions(target, control, method, summary)
    /\ pc' = "done"
    /\ UNCHANGED <<op, table, groups, target, control, method, summary>>

Next == AssignReplicates \/ CompareDistributions

Spec == Init /\ [][Next]_vars

SpecAssign == InitAssign /\ [][AssignReplicates]_vars

SpecCompare == InitCompare /\ [][CompareDistributions]_vars

(***************************************************************************)
(* Properties.                                                             *)
(***************************************************************************)
AssignDone == pc = "done" /\ op = "assign_replicates"

CompareDone == pc = "done" /\ op = "compare_distributions"

AllPresent(df, gs) == \A i \in DOMAIN gs : ColumnsPresent(df, gs[i])

\* The columns of the returned frame that follow the input's columns.
Derived(df, res) == SubSeq(res.cols, Len(df.cols) + 1, Len(res.cols))

\* A derived column holding field f's flag: "f_replicate", or that name with
\* the merge suffix "_y".
IsFlagOf(nm, f) ==
    \/ nm = replicate_col_name(f)
    \/ nm = replicate_col_name(f) \o <<"_y">>

IsGroupFlag(nm) ==
    \/ nm = <<"group", "_replicate">>
    \/ nm = <<"group", "_replicate", "_y">>

\* The value of column nm of df at row position r (first column so named).
Cell(df, nm, r) ==
    df.cols[CHOOSE i \in DOMAIN df.cols : df.cols[i].name = nm].vals[r]

SidesEqual(df, f, r) ==
    Cell(df, replicate_cols_with_suffix(f)[1], r)
        = Cell(df, replicate_cols_with_suffix(f)[2], r)

\* C1: in every returned table, each row's group_replicate is true exactly
\* when every f_replicate column of that row is true, and every grouping
\* field has such a column.
C1_GroupIsAnd ==
    (AssignDone /\ ret.outcome = "ok") =>
        LET d == Derived(table, ret.value)
        IN  /\ d # <<>>
            /\ IsGroupFlag(d[Len(d)].name)
            /\ \A i \in DOMAIN groups :
                 \E c \in 1..(Len(d) - 1) : IsFlagOf(d[c].name, groups[i])
            /\ \A r \in 1..NRows(ret.value) :
                 d[Len(d)].vals[r] =
                    (\A c \in 1..(Len(d) - 1) : d[c].vals[r] = TRUE)

C1_Witness ==
    /\ AssignDone /\ ret.outcome = "ok"
    /\ LET d == Derived(table, ret.value)
       IN  \E r \in 1..NRows(ret.value) :
             \E c1, c2 \in 1..(Len(d) - 1) :
                /\ d[c1].vals[r] = TRUE /\ d[c2].vals[r] = FALSE
                /\ d[Len(d)].vals[r] = FALSE

\* C2: for every grouping field and every row of the input, whatever the row
\* labels, the call returns the row with f_replicate true exactly when the
\* row's two suffixed values are equal.
C2_FlagIsEqualityAnyIndex ==
    (AssignDone /\ AllPresent(table, groups)) =>
        /\ ret.outcome = "ok"
        /\ NRows(ret.value) = NRows(table)
        /\ LET d == Derived(table, ret.value)
           IN  \A i \in DOMAIN groups : \A r \in 1..NRows(table) :
                 \E c \in DOMAIN d :
                    /\ IsFlagOf(d[c].name, groups[i])
                    /\ d[c].vals[r] = SidesEqual(table, groups[i], r)

\* C3: for every valid input, whatever the row labels, the returned table
\* has the input's rows in the input's order under the input's index.
C3_RowsPreservedAnyIndex ==
    (AssignDone /\ AllPresent(table, groups)) =>
        /\ ret.outcome = "ok"
        /\ ret.value.index = table.index
        /\ \A c \in DOMAIN table.cols :
              ret.value.cols[c].vals = table.cols[c].vals

\* C4: a call whose grouping list names a field lacking a suffixed column
\* fails with the assertion error, returns no table and leaves the caller's
\* table as it was.
C4_MissingColumnFailsFirst ==
    [][(pc = "ready" /\ op = "assign_replicates" /\ ~AllPresent(table, groups))
        => /\ ret'.outcome = "AssertionError"
           /\ ret'.value = EmptyFrame
           /\ table' = table]_vars

\* C5: no call, successful or failing, changes the caller's table: its
\* columns, values and index after the call are those before it.
C5_InputNotMutated == [][table' = table]_vars

C5_Witness ==
    /\ AssignDone /\ ret.outcome = "ok"
    /\ Derived(table, ret.value) # <<>>
    /\ \E r \in 1..NRows(ret.value) :
          Derived(table, ret.value)[1].vals[r] = TRUE

\* C6: an unsupported method, or an unsupported replicate_summary_method,
\* each whatever the other argument is, raises UnsupportedMethodError and
\* nothing is fitted or transformed.
C6_UnsupportedRaisesFirst ==
    (CompareDone /\ (method # "zscore" \/ summary \notin {"mean", "median"})) =>
        /\ ret.outcome = "UnsupportedMethodError"
        /\ ret.kind = "none"
        /\ "fit" \notin Range(ret.calls)
        /\ "transform" \notin Range(ret.calls)

C6_Witness ==
    /\ CompareDone /\ method = "zscore" /\ summary = "bogus"
    /\ control # <<>>
    /\ ret.outcome = "UnsupportedMethodError"

\* Reference values for the z-scores: with n = Len(control), s its sum and
\* v = n * (sum of squares) - s * s, the score of x is
\* (n * x - s) / sqrt(v), or (n * x - s) / n when v = 0.
RefV == Len(control) * SumSeq([i \in DOMAIN control |-> control[i] * control[i]])
            - SumSeq(control) * SumSeq(control)

RefNum(x) == Len(control) * x - SumSeq(control)

RefDen == IF RefV = 0 THEN Len(control) ELSE 1

RefRad == IF RefV = 0 THEN 1 ELSE RefV

\* Twice the median of the reference numerators: read off any ordering of
\* the target that sorts them.
IsTwiceRefMedian(x) ==
    LET m == Len(target)
    IN  \E p \in Permutations(1..m) :
          /\ \A i \in 1..(m - 1) : RefNum(target[p[i]]) <= RefNum(target[p[i + 1]])
          /\ x = IF m % 2 = 1 THEN 2 * RefNum(target[p[(m + 1) \div 2]])
                 ELSE RefNum(target[p[m \div 2]]) + RefNum(target[p[m \div 2 + 1]])

\* The call returned one scalar, and it is the mean ("mean") or the median
\* ("median") of the reference scores of the elements of target.
ReturnedSummaryScalar ==
    /\ ret.outcome = "ok"
    /\ ret.kind = "scalar"
    /\ Len(ret.scores) = Len(target)
    /\ ret.scalar.rad = RefRad
    /\ ret.scalar.den > 0
    /\ summary = "mean" =>
         ret.scalar.num * (Len(target) * RefDen)
            = SumSeq([i \in DOMAIN target |-> RefNum(target[i])]) * ret.scalar.den
    /\ summary = "median" =>
         \E x \in -(4 * (MaxControl + 1) * (MaxValue + 1))
                    ..(4 * (MaxControl + 1) * (MaxValue + 1)) :
            /\ IsTwiceRefMedian(x)
            /\ ret.scalar.num * (2 * RefDen) = x * ret.scalar.den

\* C7 as stated: for method "zscore", every call that passes both method
\* validations returns one scalar, the mean or the median of the scores of
\* target standardized against control.
C7_EveryAcceptedCallScalar ==
    (CompareDone /\ method = "zscore" /\ summary \in {"mean", "median"}) =>
        ReturnedSummaryScalar

\* C7 amended: for method "zscore" and an accepted summary method, a call
\* with non-empty target and control returns one scalar, the mean ("mean")
\* or the median ("median") of the scores (x - mean(control)) /
\* scale(control) of the elements x of target, whatever the two lengths; a
\* call with an empty target or control raises ValueError and returns
\* nothing; the per-element scores are never returned.
C7_ZscoreScalar ==
    (CompareDone /\ method = "zscore" /\ summary \in {"mean", "median"}) =>
        /\ ret.kind # "array"
        /\ (target # <<>> /\ control # <<>>) => ReturnedSummaryScalar
        /\ (target = <<>> \/ control = <<>>) =>
              /\ ret.outcome = "ValueError"
              /\ ret.kind = "none"

\* A median that differs from the mean: three target elements, two equal.
C7_Witness ==
    /\ CompareDone /\ method = "zscore" /\ summary = "median"
    /\ ret.outcome = "ok" /\ ret.kind = "scalar"
    /\ Len(target) = 3 /\ target[1] = target[3] /\ target[1] # target[2]
    /\ Len(control) # Len(target)
    /\ RefV > 0
    /\ ret.scalar.num * 3
         # SumSeq([i \in DOMAIN target |-> RefNum(target[i])]) * ret.scalar.den

ZeroVariance == control # <<>> /\ \A i \in DOMAIN control : control[i] = control[1]

\* C8 as stated: with a zero-variance or empty control, "zscore" never
\* yields a finite score.
C8_DegenerateNeverScores ==
    (CompareDone /\ method = "zscore" /\ summary \in {"mean", "median"}
        /\ (control = <<>> \/ ZeroVariance)) =>
        ret.outcome # "ok"

\* C8 amended: an empty control makes the fit raise, and the error reaches
\* the caller with no score; a non-empty zero-variance control is scaled by
\* 1, so for a non-empty target every score is x - c (c the control's
\* value) and the call returns their finite mean or median.
C8_DegenerateControl ==
    (CompareDone /\ method = "zscore" /\ summary \in {"mean", "median"}) =>
        /\ control = <<>> =>
              /\ ret.outcome = "ValueError"
              /\ ret.kind = "none"
        /\ (ZeroVariance /\ target # <<>>) =>
              /\ ret.outcome = "ok"
              /\ ret.kind = "scalar"
              /\ ret.scalar.den > 0 /\ ret.scalar.rad = 1
              /\ \A i \in DOMAIN target :
                    /\ ret.scores[i].rad = 1
                    /\ ret.scores[i].num
                         = (target[i] - control[1]) * ret.scores[i].den
              /\ summary = "mean" =>
                    ret.scalar.num * Len(target)
                      = SumSeq([i \in DOMAIN target |-> target[i] - control[1]])
                          * ret.scalar.den
              /\ summary = "median" =>
                    \E x \in -(4 * (MaxControl + 1) * (MaxValue + 1))
                               ..(4 * (MaxControl + 1) * (MaxValue + 1)) :
                       /\ IsTwiceRefMedian(x)
                       /\ ret.scalar.num * (2 * Len(control))
                            = x * ret.scalar.den

C8_Witness ==
    /\ CompareDone /\ method = "zscore" /\ summary = "mean"
    /\ ZeroVariance /\ Len(control) > 1 /\ target # <<>>
    /\ ret.outcome = "ok" /\ ret.scalar.num # 0

\* The table with the two sides of field f exchanged on every row.
SwapSides(df, f) ==
    LET s == replicate_cols_with_suffix(f)
    IN  [df EXCEPT !.cols = [i \in DOMAIN df.cols |->
            IF df.cols[i].name = s[1]
            THEN [name |-> s[1], vals |-> [r \in 1..NRows(df) |-> Cell(df, s[2], r)]]
            ELSE IF df.cols[i].name = s[2]
            THEN [name |-> s[2], vals |-> [r \in 1..NRows(df) |-> Cell(df, s[1], r)]]
            ELSE df.cols[i]]]

\* C9: exchanging the two sides of a field on every row changes neither the
\* outcome of the call nor any derived column it returns.
C9_SwapSymmetric ==
    AssignDone =>
        \A f \in Fields :
            ColumnsPresent(table, f) =>
                LET swapped == SwapSides(table, f)
                    other   == assign_replicates(swapped, groups)
                IN  /\ other.outcome = ret.outcome
                    /\ Derived(swapped, other.value) = Derived(table, ret.value)

C9_Witness ==
    /\ AssignDone /\ ret.outcome = "ok"
    /\ \E i \in DOMAIN groups : \E r \in 1..NRows(table) :
          /\ ~SidesEqual(table, groups[i], r)
          /\ SwapSides(table, groups[i]) # table

\* C10: the returned table is the input's columns, names and values as they
\* were, followed by exactly one f_replicate column per grouping field and
\* one group_replicate column, also for a repeated field and for an input
\* that already has a column of one of those names.
C10_ColumnsAppendedOnce ==
    (AssignDone /\ AllPresent(table, groups)) =>
        /\ ret.outcome = "ok"
        /\ Len(ret.value.cols) = Len(table.cols) + Cardinality(Range(groups)) + 1
        /\ SubSeq(ret.value.cols, 1, Len(table.cols)) = table.cols
        /\ LET d == Derived(table, ret.value)
           IN  /\ d[Len(d)].name = <<"group", "_replicate">>
               /\ \A i \in DOMAIN groups :
                    Cardinality({c \in 1..(Len(d) - 1) :
                        d[c].name = replicate_col_name(groups[i])}) = 1

====
